---- MODULE Spec2Model ----
(***************************************************************************)
(* Course grade resolution of lms/djangoapps/grades/new/                   *)
(* course_grade_factory.py: CourseGradeFactory.create / read / update /    *)
(* iter, with the persistent grade table, the configuration switches, the  *)
(* grade calculator and the two signals as the environment.                *)
(***************************************************************************)
EXTENDS Naturals, Sequences, FiniteSets, TLC

\* Longest list of users handed to CourseGradeFactory.iter.
MaxUsers == 2

Learners == {"u1", "u2"}
Hashes == {"h1", "h2"}
\* What the learner has done in the course: the calculator's input.
DataVals == {"unattempted", "partial"}
\* Callers of the factory; Main is the one caller of a single-threaded run.
Procs == {"p1", "p2"}
Main == "p1"

VARIABLES
    \* ---- environment -------------------------------------------------
    store,              \* PersistentCourseGrade table: learner -> row or Absent
    data,               \* learner -> graded work on record
    policyHash,         \* the course's current grading policy hash
    persistGrades,      \* should_persist_grades(course_key)
    assumeZero,         \* assume_zero_if_absent(course_key)
    writeOnlyIfEngaged, \* waffle().is_enabled(WRITE_ONLY_IF_ENGAGED)
    lastWriter,         \* learner -> the process whose upsert wrote the row last
    \* ---- one factory call per process --------------------------------
    pc,                 \* position of the call
    op,                 \* "create" | "read" | "update"
    user,               \* the learner of the call
    ctxHash,            \* course_data.grading_policy_hash of the call
    readOnly,           \* the read_only argument of _update
    dataSeen,           \* the learner's work the calculator read
    grade,              \* course_grade computed in _update
    result,             \* what the call returned or raised
    events,             \* collaborators touched by the call, in order
    store0,             \* the table when the call started
    prev,               \* the same call made immediately before, if any
    inIter,             \* the call was made by _iter_grade_result
    stale,              \* the learner's work changed after the calculator read it
    \* ---- the generator returned by iter ------------------------------
    genState,           \* "none" | "created" | "running" | "suspended" | ...
    genUsers,           \* the users argument
    genForce,           \* the force_update argument
    genHash,            \* the hash of the pre-fetched course_data
    genIdx,             \* index of the user being graded
    results,            \* GradeResults yielded so far
    outcomes,           \* what each call of _iter_grade_result's method did
    cacheClears         \* for each VisibleBlocks.clear_cache: Len(results) then

envVars == <<store, data, policyHash, persistGrades, assumeZero, writeOnlyIfEngaged,
             lastWriter>>
callVars == <<pc, op, user, ctxHash, readOnly, dataSeen, grade, result, events, store0, prev,
              inIter, stale>>
genVars == <<genState, genUsers, genForce, genHash, genIdx, results, outcomes, cacheClears>>
vars == <<envVars, callVars, genVars>>

----------------------------------------------------------------------------
\* Values

Absent == [exists |-> FALSE]
NoLetter == "None"
NotLoaded == "lazy"
NullTimestamp == "null"
SomeTimestamp == "ts"

NoGrade == [class |-> "unset"]
None == [class |-> "NoneType"]
Pending == [kind |-> "pending"]
Returned(v) == [kind |-> "return", value |-> v]
Raised(e) == [kind |-> "raise", exc |-> e]
NoPrev == [valid |-> FALSE]

\* ZeroCourseGrade(user, course_data)
ZeroCourseGrade ==
    [class |-> "ZeroCourseGrade", percent |-> 0, letter_grade |-> NoLetter,
     passed |-> FALSE, attempted |-> FALSE]

\* CourseGrade(user, course_data, percent, letter_grade, passed)
CourseGrade(percent, letter_grade, passed) ==
    [class |-> "CourseGrade", percent |-> percent, letter_grade |-> letter_grade,
     passed |-> passed, attempted |-> NotLoaded]

\* The grade calculator, CourseGrade.update(): a function of the learner's
\* work and of the grading policy (the pass cutoff is part of the policy).
Percent(d) == IF d = "partial" THEN 60 ELSE 0
Cutoff(h) == IF h = "h1" THEN 50 ELSE 80
Compute(d, h) ==
    LET pct == Percent(d)
        ok == pct >= Cutoff(h)
    IN  [class |-> "CourseGrade", percent |-> pct,
         letter_grade |-> IF ok THEN "Pass" ELSE NoLetter,
         passed |-> ok, attempted |-> (d # "unattempted")]

----------------------------------------------------------------------------
\* CourseGradeFactory._read

\* Variant: the table read without asking should_persist_grades.
_read_unswitched(u) ==
    IF ~store[u].exists THEN [found |-> FALSE, store_read |-> TRUE]
    ELSE [found |-> TRUE, store_read |-> TRUE,
          course_grade |-> CourseGrade(store[u].percent_grade,
                                       store[u].letter_grade,
                                       store[u].passed_timestamp # NullTimestamp),
          grading_policy_hash |-> store[u].grading_policy_hash]

_read(u) ==
    IF ~persistGrades THEN [found |-> FALSE, store_read |-> FALSE]
    ELSE IF ~store[u].exists THEN [found |-> FALSE, store_read |-> TRUE]
    ELSE [found |-> TRUE, store_read |-> TRUE,
          course_grade |-> CourseGrade(store[u].percent_grade,
                                       store[u].letter_grade,
                                       store[u].passed_timestamp # NullTimestamp),
          grading_policy_hash |-> store[u].grading_policy_hash]

\* Variant: the comparison inverted.
PolicyChanged(read_policy_hash, current_hash) == read_policy_hash # current_hash

\* create: read_policy_hash == course_data.grading_policy_hash
PolicyUnchanged(read_policy_hash, current_hash) == read_policy_hash = current_hash

\* Variant: a recomputed grade is never written back.
ReadOnlyAlways == TRUE

\* create: read_only after a stored grade with another policy hash was read
ReadOnlyWhenPolicyChanged == FALSE

\* Variant: a first grade is written at once.
ReadOnlyNever == FALSE

\* create: read_only after DoesNotExist
ReadOnlyWhenAbsent == TRUE

\* update: read_only=False
ReadOnlyOfUpdate == FALSE

\* Variant: _create_zero without its return value.
ReturnsNothing == None

\* _create_zero
_create_zero == ZeroCourseGrade

\* Variant: the two branches of read's except clause exchanged.
read_except_swapped == IF assumeZero THEN None ELSE ZeroCourseGrade

\* read: the except clause, what read returns when _read raised DoesNotExist
read_except == IF assumeZero THEN _create_zero ELSE None

\* Variant: should_persist_grades not consulted.
should_persist_unswitched(read_only, course_grade) ==
    ~read_only /\ (~writeOnlyIfEngaged \/ course_grade.attempted = TRUE)

\* Variant: read_only not consulted.
should_persist_any_caller(read_only, course_grade) ==
    persistGrades /\ (~writeOnlyIfEngaged \/ course_grade.attempted = TRUE)

\* Variant: WRITE_ONLY_IF_ENGAGED not consulted.
should_persist_ungated(read_only, course_grade) == ~read_only /\ persistGrades

\* _update: should_persist
should_persist(read_only, course_grade) ==
    /\ ~read_only
    /\ persistGrades
    /\ (~writeOnlyIfEngaged \/ course_grade.attempted = TRUE)

\* Variant: grading_policy_hash not handed to update_or_create.
PersistentRowWithoutHash(hash, course_grade) ==
    [exists |-> TRUE,
     grading_policy_hash |-> "",
     percent_grade |-> course_grade.percent,
     letter_grade |-> IF course_grade.letter_grade = NoLetter THEN ""
                      ELSE course_grade.letter_grade,
     passed_timestamp |-> IF course_grade.passed = TRUE THEN SomeTimestamp
                          ELSE NullTimestamp]

\* _update: the row handed to PersistentCourseGrade.update_or_create
PersistentRow(hash, course_grade) ==
    [exists |-> TRUE,
     grading_policy_hash |-> hash,
     percent_grade |-> course_grade.percent,
     letter_grade |-> IF course_grade.letter_grade = NoLetter THEN ""
                      ELSE course_grade.letter_grade,
     passed_timestamp |-> IF course_grade.passed = TRUE THEN SomeTimestamp
                          ELSE NullTimestamp]

\* Variant: the signal sent for every grade.
NowPassedAlways(course_grade) == TRUE

\* _update: if course_grade.passed is True
NowPassed(course_grade) == course_grade.passed = TRUE

\* Variant: the calculator's exception swallowed, _update goes on.
CalculatorErrorSwallowed == "send_changed"

\* Variant: the calculator run again after it raised.
CalculatorRetried == "compute"

\* _update: course_grade.update() raised; nothing catches it, the call is over
OnCalculatorError == "done"

\* Variant: get_or_create, which leaves a row that exists as it is.
get_or_create(table, u, row) ==
    IF table[u].exists THEN table ELSE [table EXCEPT ![u] = row]

\* _update: PersistentCourseGrade.update_or_create(user_id=..., course_id=...,
\* ...): the row of the key is created or overwritten, whatever it held
update_or_create(table, u, row) == [table EXCEPT ![u] = row]

\* Variant: the table's exception swallowed, _update goes on.
StoreErrorSwallowed == "send_changed"

\* _update: update_or_create raised; nothing in _update, create or update
\* catches it, the call is over
OnStoreError == "done"

\* Variant: Signal.send, which lets a receiver's exception through.
send(signal, receiver_fails) ==
    [log |-> IF receiver_fails THEN <<"listener_failed">> ELSE <<signal>>,
     raised |-> receiver_fails]

\* _update: Signal.send_robust, which calls every receiver and returns a
\* receiver's exception in its response list instead of raising it
send_robust(signal, receiver_fails) ==
    [log |-> IF receiver_fails THEN <<"listener_failed", signal>> ELSE <<signal>>,
     raised |-> FALSE]

Log(p, es) == [events EXCEPT ![p] = @ \o es]
ReadLog(r) == IF r.store_read THEN <<"store_read">> ELSE <<>>

----------------------------------------------------------------------------
\* Entry of a call: CourseData(user, ...) is built, nothing else has run.

Enter(p, o, u, hash, fromIter) ==
    /\ op' = [op EXCEPT ![p] = o]
    /\ user' = [user EXCEPT ![p] = u]
    /\ ctxHash' = [ctxHash EXCEPT ![p] = hash]
    /\ readOnly' = [readOnly EXCEPT ![p] = IF o = "update" THEN ReadOnlyOfUpdate ELSE FALSE]
    /\ dataSeen' = [dataSeen EXCEPT ![p] = "none"]
    /\ grade' = [grade EXCEPT ![p] = NoGrade]
    /\ result' = [result EXCEPT ![p] = Pending]
    /\ events' = [events EXCEPT ![p] = <<>>]
    /\ store0' = [store0 EXCEPT ![p] = store]
    /\ inIter' = [inIter EXCEPT ![p] = fromIter]
    /\ stale' = [stale EXCEPT ![p] = FALSE]
    /\ prev' = [prev EXCEPT ![p] =
                  IF pc[p] = "done" /\ op[p] = o /\ user[p] = u /\ ~fromIter
                      /\ ~inIter[p]
                  THEN [valid |-> TRUE, result |-> result[p], events |-> events[p],
                        ctxHash |-> ctxHash[p], dataSeen |-> dataSeen[p]]
                  ELSE NoPrev]
    /\ pc' = [pc EXCEPT ![p] = IF o = "update" THEN "compute" ELSE "read"]

CanCall(p) == pc[p] \in {"idle", "done"} /\ genState = "none"

create(p, u) ==
    /\ CanCall(p)
    /\ Enter(p, "create", u, policyHash, FALSE)
    /\ UNCHANGED <<envVars, genVars>>

read(p, u) ==
    /\ CanCall(p)
    /\ Enter(p, "read", u, policyHash, FALSE)
    /\ UNCHANGED <<envVars, genVars>>

update(p, u) ==
    /\ CanCall(p)
    /\ Enter(p, "update", u, policyHash, FALSE)
    /\ UNCHANGED <<envVars, genVars>>

\* create, lines 36-46: the try block around _read and its except clause
create_read(p) ==
    /\ pc[p] = "read" /\ op[p] = "create"
    /\ LET r == _read(user[p]) IN
        /\ events' = Log(p, ReadLog(r))
        /\ IF r.found /\ PolicyUnchanged(r.grading_policy_hash, ctxHash[p])
           THEN /\ result' = [result EXCEPT ![p] = Returned(r.course_grade)]
                /\ pc' = [pc EXCEPT ![p] = "done"]
                /\ UNCHANGED readOnly
           ELSE IF r.found
           THEN /\ readOnly' = [readOnly EXCEPT ![p] = ReadOnlyWhenPolicyChanged]
                /\ pc' = [pc EXCEPT ![p] = "compute"]
                /\ UNCHANGED result
           ELSE IF assumeZero
           THEN /\ result' = [result EXCEPT ![p] = Returned(_create_zero)]
                /\ pc' = [pc EXCEPT ![p] = "done"]
                /\ UNCHANGED readOnly
           ELSE /\ readOnly' = [readOnly EXCEPT ![p] = ReadOnlyWhenAbsent]
                /\ pc' = [pc EXCEPT ![p] = "compute"]
                /\ UNCHANGED result
    /\ UNCHANGED <<envVars, genVars, op, user, ctxHash, dataSeen, grade, store0, prev, inIter, stale>>

\* read, lines 60-67
read_read(p) ==
    /\ pc[p] = "read" /\ op[p] = "read"
    /\ LET r == _read(user[p]) IN
        /\ events' = Log(p, ReadLog(r))
        /\ result' = [result EXCEPT ![p] =
                        IF r.found THEN Returned(r.course_grade)
                        ELSE Returned(read_except)]
    /\ pc' = [pc EXCEPT ![p] = "done"]
    /\ UNCHANGED <<envVars, genVars, op, user, ctxHash, readOnly, dataSeen, grade, store0, prev, inIter, stale>>

\* _update, lines 174-175: the calculator runs, and may raise
_update_compute(p) ==
    /\ pc[p] = "compute"
    /\ events' = Log(p, <<"calc">>)
    /\ dataSeen' = [dataSeen EXCEPT ![p] = data[user[p]]]
    /\ \E ok \in BOOLEAN :
        IF ok
        THEN /\ grade' = [grade EXCEPT ![p] = Compute(data[user[p]], ctxHash[p])]
             /\ pc' = [pc EXCEPT ![p] = "persist"]
             /\ UNCHANGED result
        ELSE /\ result' = [result EXCEPT ![p] = Raised("CalculatorError")]
             /\ pc' = [pc EXCEPT ![p] = OnCalculatorError]
             /\ UNCHANGED grade
    /\ UNCHANGED <<envVars, genVars, op, user, ctxHash, readOnly, store0, prev, inIter, stale>>

\* _update, lines 177-193: should_persist and update_or_create, which may raise
_update_persist(p) ==
    /\ pc[p] = "persist"
    /\ IF should_persist(readOnly[p], grade[p])
       THEN \E ok \in BOOLEAN :
            IF ok
            THEN /\ store' = update_or_create(store, user[p],
                                                PersistentRow(ctxHash[p], grade[p]))
                 /\ lastWriter' = [lastWriter EXCEPT ![user[p]] = p]
                 /\ events' = Log(p, <<"upsert">>)
                 /\ pc' = [pc EXCEPT ![p] = "send_changed"]
                 /\ UNCHANGED result
            ELSE /\ result' = [result EXCEPT ![p] = Raised("StoreError")]
                 /\ events' = Log(p, <<"upsert_failed">>)
                 /\ pc' = [pc EXCEPT ![p] = OnStoreError]
                 /\ UNCHANGED <<store, lastWriter>>
       ELSE /\ pc' = [pc EXCEPT ![p] = "send_changed"]
            /\ UNCHANGED <<store, lastWriter, result, events>>
    /\ UNCHANGED <<data, policyHash, persistGrades, assumeZero, writeOnlyIfEngaged,
                   genVars, op, user, ctxHash, readOnly, dataSeen, grade, store0, prev, inIter, stale>>

\* _update, lines 195-201: COURSE_GRADE_CHANGED.send_robust; a receiver may fail
_update_send_changed(p) ==
    /\ pc[p] = "send_changed"
    /\ \E receiver_fails \in BOOLEAN :
        LET r == send_robust("changed", receiver_fails) IN
        /\ events' = Log(p, r.log)
        /\ IF r.raised
           THEN /\ result' = [result EXCEPT ![p] = Raised("ListenerError")]
                /\ pc' = [pc EXCEPT ![p] = "done"]
           ELSE /\ pc' = [pc EXCEPT ![p] = "send_passed"]
                /\ UNCHANGED result
    /\ UNCHANGED <<envVars, genVars, op, user, ctxHash, readOnly, dataSeen, grade, store0, prev, inIter, stale>>

\* _update, lines 202-207: COURSE_GRADE_NOW_PASSED.send_robust under
\* "if course_grade.passed is True"; a receiver may fail
_update_send_passed(p) ==
    /\ pc[p] = "send_passed"
    /\ IF NowPassed(grade[p])
       THEN \E receiver_fails \in BOOLEAN :
            LET r == send_robust("passed", receiver_fails) IN
            /\ events' = Log(p, r.log)
            /\ IF r.raised
               THEN /\ result' = [result EXCEPT ![p] = Raised("ListenerError")]
                    /\ pc' = [pc EXCEPT ![p] = "done"]
               ELSE /\ pc' = [pc EXCEPT ![p] = "notified"]
                    /\ UNCHANGED result
       ELSE /\ pc' = [pc EXCEPT ![p] = "notified"]
            /\ UNCHANGED <<events, result>>
    /\ UNCHANGED <<envVars, genVars, op, user, ctxHash, readOnly, dataSeen, grade, store0, prev, inIter, stale>>

\* _update, lines 209-214: log.info and return course_grade
_update_return(p) ==
    /\ pc[p] = "notified"
    /\ result' = [result EXCEPT ![p] = Returned(grade[p])]
    /\ pc' = [pc EXCEPT ![p] = "done"]
    /\ UNCHANGED <<envVars, genVars, op, user, ctxHash, readOnly, dataSeen, grade, events, store0, prev, inIter, stale>>

\* The caller lets go of the result of a direct call.
Return(p) ==
    /\ pc[p] = "done" /\ ~inIter[p]
    /\ pc' = [pc EXCEPT ![p] = "idle"]
    /\ op' = [op EXCEPT ![p] = "none"]
    /\ user' = [user EXCEPT ![p] = "none"]
    /\ ctxHash' = [ctxHash EXCEPT ![p] = "none"]
    /\ readOnly' = [readOnly EXCEPT ![p] = FALSE]
    /\ dataSeen' = [dataSeen EXCEPT ![p] = "none"]
    /\ grade' = [grade EXCEPT ![p] = NoGrade]
    /\ result' = [result EXCEPT ![p] = Pending]
    /\ events' = [events EXCEPT ![p] = <<>>]
    /\ store0' = [store0 EXCEPT ![p] = store]
    /\ prev' = [prev EXCEPT ![p] = NoPrev]
    /\ stale' = [stale EXCEPT ![p] = FALSE]
    /\ UNCHANGED <<envVars, genVars, inIter>>

----------------------------------------------------------------------------
\* CourseGradeFactory.iter: a generator.  Calling iter only creates it; each
\* next() of the consumer runs it to the next yield.

UserLists == UNION {[1..n -> Learners] : n \in 0..MaxUsers}
\* Variant: the cache cleared before the yield.
ClearsOnEntry == <<"clear_cache">>

\* _course_transaction: the statements before its yield (there are none)
_course_transaction_enter == <<>>

\* _course_transaction: the statements after its yield, which run when the
\* with block is left normally; an exception thrown into the yield (also the
\* GeneratorExit of a close) leaves the function there
_course_transaction_exit(normally) == IF normally THEN <<"clear_cache">> ELSE <<>>

Cleared(before, calls) == before \o [i \in 1..Len(calls) |-> Len(results)]

\* Variant: the except clause drops the exception.
GradeResultLosingError(student, outcome) ==
    [student |-> student,
     course_grade |-> IF outcome.kind = "return" THEN outcome.value ELSE None,
     error |-> None]

\* _iter_grade_result: the GradeResult built from what create or update did
GradeResult(student, outcome) ==
    IF outcome.kind = "return"
    THEN [student |-> student, course_grade |-> outcome.value, error |-> None]
    ELSE [student |-> student, course_grade |-> None,
          error |-> [class |-> "Exception", exc |-> outcome.exc]]

\* Variant: the course looked up again for every learner.
course_data_refetched == policyHash

\* _iter_grade_result: course_data.course and course_data.collected_structure
\* of the one CourseData that iter built, handed to every create or update
course_data_of_iter == genHash

\* _iter_grade_result: update if force_update else create
method(force_update) == IF force_update THEN "update" ELSE "create"

iter(p, users, force_update) ==
    /\ pc[p] = "idle" /\ genState = "none"
    /\ genState' = "created"
    /\ genUsers' = users
    /\ genForce' = force_update
    /\ UNCHANGED <<envVars, callVars, genHash, genIdx, results, cacheClears, outcomes>>

\* The for loop asks users for its next element and calls
\* _iter_grade_result for it, or leaves the with block when there is none.
Advance(p, hash, cleared) ==
    IF genIdx + 1 <= Len(genUsers)
    THEN /\ genIdx' = genIdx + 1
         /\ genState' = "running"
         /\ cacheClears' = cleared
         /\ Enter(p, method(genForce), genUsers[genIdx + 1], hash, TRUE)
    ELSE /\ genState' = "exhausted"
         /\ cacheClears' = Cleared(cleared, _course_transaction_exit(TRUE))
         /\ UNCHANGED <<callVars, genIdx>>

\* first next(): course_data is built and the with block entered
gen_start(p) ==
    /\ genState = "created" /\ pc[p] = "idle"
    /\ genHash' = policyHash
    /\ Advance(p, policyHash, Cleared(cacheClears, _course_transaction_enter))
    /\ UNCHANGED <<envVars, genUsers, genForce, results, outcomes>>

\* _iter_grade_result returns and the generator yields the GradeResult
gen_yield(p) ==
    /\ genState = "running" /\ pc[p] = "done" /\ inIter[p]
    /\ results' = Append(results, GradeResult(user[p], result[p]))
    /\ outcomes' = Append(outcomes, result[p])
    /\ genState' = "suspended"
    /\ pc' = [pc EXCEPT ![p] = "idle"]
    /\ inIter' = [inIter EXCEPT ![p] = FALSE]
    /\ UNCHANGED <<envVars, op, user, ctxHash, readOnly, dataSeen, grade, result, events,
                   store0, prev, stale, genUsers, genForce, genHash, genIdx, cacheClears>>

\* a later next(): the generator resumes after its yield
gen_next(p) ==
    /\ genState = "suspended" /\ pc[p] = "idle"
    /\ Advance(p, course_data_of_iter, cacheClears)
    /\ UNCHANGED <<envVars, genUsers, genForce, genHash, results, outcomes>>

\* the users iterable raises when asked for its next element
gen_users_raise(p) ==
    /\ genState = "suspended" /\ pc[p] = "idle"
    /\ genState' = "failed"
    /\ cacheClears' = Cleared(cacheClears, _course_transaction_exit(FALSE))
    /\ UNCHANGED <<envVars, callVars, genUsers, genForce, genHash, genIdx, results, outcomes>>

\* the consumer stops: close(), or the generator is dropped and collected
gen_close(p) ==
    /\ genState \in {"created", "suspended"} /\ pc[p] = "idle"
    /\ genState' = "closed"
    /\ cacheClears' = IF genState = "suspended"
                      THEN Cleared(cacheClears, _course_transaction_exit(FALSE))
                      ELSE cacheClears
    /\ UNCHANGED <<envVars, callVars, genUsers, genForce, genHash, genIdx, results, outcomes>>

----------------------------------------------------------------------------
\* The environment, between calls

Quiet == \A p \in Procs : pc[p] = "idle"

ChangePolicy ==
    /\ Quiet
    /\ \E h \in Hashes \ {policyHash} : policyHash' = h
    /\ UNCHANGED <<store, data, persistGrades, assumeZero, writeOnlyIfEngaged, lastWriter,
                   callVars, genVars>>

\* The learner's graded work changes (a submission is scored); every call
\* whose calculator has already read the learner's work now holds old data.
SubmissionScored(u, d) ==
    /\ data' = [data EXCEPT ![u] = d]
    /\ stale' = [p \in Procs |-> stale[p] \/ (user[p] = u /\ dataSeen[p] # "none")]
    /\ UNCHANGED <<store, policyHash, persistGrades, assumeZero, writeOnlyIfEngaged,
                   lastWriter, pc, op, user, ctxHash, readOnly, dataSeen, grade, result,
                   events, store0, prev, inIter, genVars>>

ChangeData ==
    /\ Quiet
    /\ \E u \in Learners : \E d \in DataVals \ {data[u]} : SubmissionScored(u, d)

\* The same while calls are in progress.
ChangeDataMidCall ==
    /\ ~Quiet
    /\ \E u \in Learners : \E d \in DataVals \ {data[u]} : SubmissionScored(u, d)

TogglePersistGrades ==
    /\ Quiet
    /\ persistGrades' = ~persistGrades
    /\ UNCHANGED <<store, data, policyHash, assumeZero, writeOnlyIfEngaged, lastWriter,
                   callVars, genVars>>

ToggleAssumeZero ==
    /\ Quiet
    /\ assumeZero' = ~assumeZero
    /\ UNCHANGED <<store, data, policyHash, persistGrades, writeOnlyIfEngaged, lastWriter,
                   callVars, genVars>>

ToggleWriteOnlyIfEngaged ==
    /\ Quiet
    /\ writeOnlyIfEngaged' = ~writeOnlyIfEngaged
    /\ UNCHANGED <<store, data, policyHash, persistGrades, assumeZero, lastWriter,
                   callVars, genVars>>

----------------------------------------------------------------------------
\* No call is in progress and no generator exists.
InitCalls ==
    /\ pc = [p \in Procs |-> "idle"]
    /\ op = [p \in Procs |-> "none"]
    /\ user = [p \in Procs |-> "none"]
    /\ ctxHash = [p \in Procs |-> "none"]
    /\ readOnly = [p \in Procs |-> FALSE]
    /\ dataSeen = [p \in Procs |-> "none"]
    /\ grade = [p \in Procs |-> NoGrade]
    /\ result = [p \in Procs |-> Pending]
    /\ events = [p \in Procs |-> <<>>]
    /\ store0 = [p \in Procs |-> store]
    /\ prev = [p \in Procs |-> NoPrev]
    /\ inIter = [p \in Procs |-> FALSE]
    /\ stale = [p \in Procs |-> FALSE]
    /\ lastWriter = [u \in Learners |-> "none"]
    /\ genState = "none"
    /\ genUsers = <<>>
    /\ genForce = FALSE
    /\ genHash = "none"
    /\ genIdx = 0
    /\ results = <<>>
    /\ outcomes = <<>>
    /\ cacheClears = <<>>

Init ==
    /\ store = [u \in Learners |-> Absent]
    /\ data = [u \in Learners |-> "unattempted"]
    /\ policyHash = "h1"
    /\ persistGrades = TRUE
    /\ assumeZero = FALSE
    /\ writeOnlyIfEngaged = FALSE
    /\ InitCalls

Next ==
    \/ \E u \in Learners : create(Main, u)
    \/ \E u \in Learners : read(Main, u)
    \/ \E u \in Learners : update(Main, u)
    \/ create_read(Main)
    \/ read_read(Main)
    \/ _update_compute(Main)
    \/ _update_persist(Main)
    \/ _update_send_changed(Main)
    \/ _update_send_passed(Main)
    \/ _update_return(Main)
    \/ Return(Main)
    \/ ChangePolicy
    \/ ChangeData
    \/ TogglePersistGrades
    \/ ToggleAssumeZero
    \/ ToggleWriteOnlyIfEngaged

Spec == Init /\ [][Next]_vars

\* Batch grading of a course whose table, switches and learners' work are
\* whatever earlier calls and the staff left them.
RowsOnRecord == {Absent} \cup {PersistentRow(h, Compute("partial", h)) : h \in Hashes}

IterInit ==
    /\ store \in [Learners -> RowsOnRecord]
    /\ data \in [Learners -> DataVals]
    /\ policyHash = "h1"
    /\ persistGrades \in BOOLEAN
    /\ assumeZero \in BOOLEAN
    /\ writeOnlyIfEngaged \in BOOLEAN
    /\ InitCalls

IterNext ==
    \/ \E users \in UserLists : \E force_update \in BOOLEAN : iter(Main, users, force_update)
    \/ gen_start(Main)
    \/ gen_next(Main)
    \/ gen_yield(Main)
    \/ gen_close(Main)
    \/ gen_users_raise(Main)
    \/ create_read(Main)
    \/ _update_compute(Main)
    \/ _update_persist(Main)
    \/ _update_send_changed(Main)
    \/ _update_send_passed(Main)
    \/ _update_return(Main)

SpecIter == IterInit /\ [][IterNext]_vars

\* Batch grading while the staff edit the course's grading policy between
\* two results.
IterChangingNext == IterNext \/ ChangePolicy

SpecIterChanging == IterInit /\ [][IterChangingNext]_vars

\* Two callers (two workers, or a worker and a request) updating grades at
\* the same time while learners' submissions are being scored.  No lock and
\* no transaction spans _update, so each step of one call may be followed by
\* a step of the other.
RaceInit ==
    /\ store = [u \in Learners |-> Absent]
    /\ data \in [Learners -> DataVals]
    /\ policyHash = "h1"
    /\ persistGrades = TRUE
    /\ assumeZero = FALSE
    /\ writeOnlyIfEngaged = FALSE
    /\ InitCalls

\* The learner both callers update, each caller having let go of its
\* previous result.
RaceLearner == "u1"

update_of_race(p) == pc[p] = "idle" /\ update(p, RaceLearner)

RaceNext ==
    \/ \E p \in Procs : update_of_race(p)
    \/ \E p \in Procs : _update_compute(p)
    \/ \E p \in Procs : _update_persist(p)
    \/ \E p \in Procs : _update_send_changed(p)
    \/ \E p \in Procs : _update_send_passed(p)
    \/ \E p \in Procs : _update_return(p)
    \/ \E p \in Procs : Return(p)
    \/ ChangeDataMidCall

SpecRace == RaceInit /\ [][RaceNext]_vars

----------------------------------------------------------------------------
\* Properties.  A call is judged in the state where it has returned or
\* raised (pc = "done"): events holds what it did, store0 the table it found.

Me == Main
U == user[Me]
Finished(o) == pc[Me] = "done" /\ op[Me] = o /\ ~inIter[Me]
ReturnedValue == result[Me].kind = "return"
Did(e) == \E i \in 1..Len(events[Me]) : events[Me][i] = e
Times(es, e) == Cardinality({i \in 1..Len(es) : es[i] = e})
Row0 == store0[Me][U]
StoredBefore == Row0.exists
StoredCurrent == StoredBefore /\ Row0.grading_policy_hash = ctxHash[Me]
StoredStale == StoredBefore /\ Row0.grading_policy_hash # ctxHash[Me]
SameAsRow(g, row) ==
    /\ g.class = "CourseGrade"
    /\ g.percent = row.percent_grade
    /\ g.letter_grade = row.letter_grade
    /\ g.passed = (row.passed_timestamp # NullTimestamp)
NoSideEffects == ~Did("calc") /\ store = store0[Me] /\ ~Did("upsert")
                 /\ ~Did("upsert_failed") /\ ~Did("changed") /\ ~Did("passed")
FastPath == /\ ReturnedValue
            /\ SameAsRow(result[Me].value, Row0)
            /\ NoSideEffects

\* C1 (as stated): whenever the table holds a grade for the learner whose
\* policy hash is the call's current hash, whatever the switches are, create
\* returns that grade and neither computes, writes nor notifies.
C1_AsStated == (Finished("create") /\ StoredCurrent) => FastPath

\* C1 (amended): whenever persistence is enabled for the course and the table
\* holds a grade for the learner whose policy hash is the call's current hash,
\* create returns that grade (same percent, letter, passed) and neither
\* computes, writes nor notifies.
C1_FastPath == (Finished("create") /\ persistGrades /\ StoredCurrent) => FastPath

C1_Witness == Finished("create") /\ persistGrades /\ StoredCurrent /\ ReturnedValue
              /\ result[Me].value.passed = TRUE

\* C2 (as stated): no stored grade, assume-zero off, persistence on,
\* engagement gate off: create computes, persists the grade under the current
\* hash, sends "grade changed", and "grade newly passed" exactly when passed.
C2_Scenario == Finished("create") /\ ~StoredBefore /\ ~assumeZero /\ persistGrades
               /\ ~writeOnlyIfEngaged /\ ReturnedValue
C2_Signals == /\ Did("calc")
              /\ result[Me].value = Compute(data[U], ctxHash[Me])
              /\ Times(events[Me], "changed") = 1
              /\ (Did("passed") <=> result[Me].value.passed = TRUE)
C2_AsStated ==
    C2_Scenario => /\ C2_Signals
                   /\ store[U].exists
                   /\ store[U].grading_policy_hash = ctxHash[Me]

\* C2 (amended): in that scenario create computes a fresh grade, leaves the
\* table without an entry for the learner (read_only is true), sends "grade
\* changed", and "grade newly passed" exactly when passed is true.
C2_NotPersisted ==
    C2_Scenario => /\ C2_Signals
                   /\ ~Did("upsert")
                   /\ store = store0[Me]
                   /\ ~store[U].exists

C2_Witness == C2_Scenario /\ Did("passed")

\* C4 (as stated): whenever the stored grade's hash differs from the current
\* hash, create invokes the calculator; and with persistence on and (gate off
\* or attempted) the call upserts a row whose hash is the current hash.
C4_Upsert ==
    (ReturnedValue /\ persistGrades
        /\ (~writeOnlyIfEngaged \/ result[Me].value.attempted = TRUE))
    => /\ Times(events[Me], "upsert") = 1
       /\ store[U].exists
       /\ store[U].grading_policy_hash = ctxHash[Me]
C4_AsStated == (Finished("create") /\ StoredStale) => (Did("calc") /\ C4_Upsert)

\* C4 (amended): whenever persistence is enabled and the stored grade's hash
\* differs from the current hash, create invokes the calculator; and if the
\* call returns and (the gate is off or the computed grade is attempted) it
\* has upserted a row whose hash is the current hash.
C4_StaleRecompute ==
    (Finished("create") /\ persistGrades /\ StoredStale) => (Did("calc") /\ C4_Upsert)

C4_Witness == Finished("create") /\ persistGrades /\ StoredStale /\ ReturnedValue
              /\ Did("upsert") /\ Row0 # store[U]

\* C5: whenever the table has no entry for the learner and assume-zero is on,
\* create and read both return a ZeroCourseGrade (percent 0, not passed, not
\* attempted) and leave the table as it was.
C5_ZeroWhenAbsent ==
    ((Finished("create") \/ Finished("read")) /\ ~StoredBefore /\ assumeZero)
    => /\ ReturnedValue
       /\ result[Me].value.class = "ZeroCourseGrade"
       /\ result[Me].value.percent = 0
       /\ result[Me].value.passed = FALSE
       /\ result[Me].value.attempted = FALSE
       /\ store = store0[Me]
       /\ ~Did("upsert")

C5_Witness == Finished("create") /\ ~StoredBefore /\ assumeZero /\ persistGrades
              /\ data[U] = "partial" /\ ReturnedValue

\* Two calls in a row: the call judged and the same call (same operation,
\* same learner) made immediately before it, with nothing in between.
Again(o) == Finished(o) /\ prev[Me].valid
BothReturned == ReturnedValue /\ prev[Me].result.kind = "return"
SameInputs == prev[Me].dataSeen = dataSeen[Me] /\ prev[Me].ctxHash = ctxHash[Me]
UpsertsOfBoth == Times(prev[Me].events, "upsert") + Times(events[Me], "upsert")

\* C6 (as stated): update always invokes the calculator, also over a stored
\* grade with the current hash; two updates in a row with unchanged data give
\* equal grades and two upserts.
C6_AsStated ==
    /\ Finished("update") => Times(events[Me], "calc") = 1
    /\ (Again("update") /\ BothReturned /\ SameInputs)
       => /\ result[Me].value = prev[Me].result.value
          /\ UpsertsOfBoth = 2

\* C6 (amended): update always invokes the calculator, also over a stored
\* grade with the current hash; two updates in a row with unchanged data give
\* equal grades, and each of them upserts exactly when persistence is enabled
\* and (the engagement gate is off or the grade is attempted): two upserts
\* then, none otherwise.
C6_UpdateTwice ==
    /\ Finished("update") => Times(events[Me], "calc") = 1
    /\ (Again("update") /\ BothReturned /\ SameInputs)
       => /\ result[Me].value = prev[Me].result.value
          /\ result[Me].value = Compute(data[U], ctxHash[Me])
          /\ UpsertsOfBoth =
                IF persistGrades
                   /\ (~writeOnlyIfEngaged \/ result[Me].value.attempted = TRUE)
                THEN 2 ELSE 0

C6_Witness == Again("update") /\ BothReturned /\ SameInputs /\ UpsertsOfBoth = 2
              /\ StoredCurrent /\ result[Me].value.passed = TRUE

\* C8 (as stated): read never computes, writes or notifies; it returns the
\* stored grade whenever one is stored, whatever its hash; a ZeroCourseGrade
\* when nothing is stored and assume-zero is on; None when nothing is stored
\* and assume-zero is off.
C8_Quiet == ReturnedValue /\ NoSideEffects
C8_Absent == ~StoredBefore =>
                result[Me].value = IF assumeZero THEN ZeroCourseGrade ELSE None
C8_AsStated ==
    Finished("read") => /\ C8_Quiet
                        /\ StoredBefore => SameAsRow(result[Me].value, Row0)
                        /\ C8_Absent

\* C8 (amended): read never computes, writes or notifies; it returns the
\* stored grade whenever one is stored and persistence is enabled for the
\* course, whatever its hash; a ZeroCourseGrade when nothing is stored and
\* assume-zero is on; None when nothing is stored and assume-zero is off.
C8_ReadOnly ==
    Finished("read") => /\ C8_Quiet
                        /\ (StoredBefore /\ persistGrades)
                              => SameAsRow(result[Me].value, Row0)
                        /\ C8_Absent

C8_Witness == Finished("read") /\ persistGrades /\ StoredStale
              /\ result[Me].value.passed = TRUE

\* C10: of two create calls in a row for the same learner with the same
\* policy hash, if the first persisted its grade, the second returns the
\* stored grade by the fast path and does not invoke the calculator.
C10_SecondCreateFast ==
    (Again("create") /\ prev[Me].ctxHash = ctxHash[Me]
        /\ Times(prev[Me].events, "upsert") = 1 /\ prev[Me].result.kind = "return")
    => FastPath

C10_Witness == Again("create") /\ prev[Me].ctxHash = ctxHash[Me]
               /\ Times(prev[Me].events, "upsert") = 1
               /\ prev[Me].result.kind = "return" /\ ReturnedValue

\* ---- iter ---------------------------------------------------------------
Started == genHash # "none"
Over == genState \in {"exhausted", "closed", "failed"}

\* C3: in every run in which iteration was started, VisibleBlocks.clear_cache
\* has been executed once the generator is over, also when the consumer
\* closed or dropped it early and when an exception went through it.
C3_TeardownAlways == (Started /\ Over) => Len(cacheClears) >= 1

C9_ClearedOnceAtEnd ==
    /\ genState = "exhausted" =>
          /\ Len(results) = Len(genUsers)
          /\ cacheClears = <<Len(genUsers)>>
    /\ genState \in {"created", "running", "suspended"} => cacheClears = <<>>

C9_Witness == genState = "exhausted" /\ Len(genUsers) = 2 /\ cacheClears = <<2>>

\* ---- the recompute path -------------------------------------------------
Recomputed == (Finished("create") \/ Finished("update")) /\ grade[Me] # NoGrade
IsEffect(e) == e \in {"upsert", "changed", "passed"}
Effects(es) == SelectSeq(es, IsEffect)

\* C11: every create or update call that recomputes and returns has sent
\* exactly one "grade changed", one "grade newly passed" if and only if the
\* computed passed is True, in the order: upsert (if any), "grade changed",
\* "grade newly passed".
C11_SignalsInOrder ==
    (Recomputed /\ ReturnedValue) =>
        /\ Times(events[Me], "changed") = 1
        /\ Times(events[Me], "passed") = (IF grade[Me].passed = TRUE THEN 1 ELSE 0)
        /\ Times(events[Me], "upsert") <= 1
        /\ Effects(events[Me]) =
              (IF Did("upsert") THEN <<"upsert">> ELSE <<>>)
              \o <<"changed">>
              \o (IF grade[Me].passed = TRUE THEN <<"passed">> ELSE <<>>)

C11_Witness == Recomputed /\ ReturnedValue
               /\ Effects(events[Me]) = <<"upsert", "changed", "passed">>

\* C13: in every recompute the upsert is performed exactly when persistence
\* is enabled for the course, read_only is false, and the engagement gate is
\* off or the computed grade is attempted; otherwise the table is unchanged.
PastPersist == /\ pc[Me] \in {"send_changed", "send_passed", "notified", "done"}
               /\ op[Me] \in {"create", "update"} /\ ~inIter[Me]
               /\ grade[Me] # NoGrade
UpsertCalls == Times(events[Me], "upsert") + Times(events[Me], "upsert_failed")
C13_UpsertIff ==
    PastPersist =>
        /\ UpsertCalls = (IF persistGrades /\ ~readOnly[Me]
                             /\ (~writeOnlyIfEngaged \/ grade[Me].attempted = TRUE)
                          THEN 1 ELSE 0)
        /\ Did("upsert") => store = [store0[Me] EXCEPT
                                       ![U] = PersistentRow(ctxHash[Me], grade[Me])]
        /\ ~Did("upsert") => store = store0[Me]

C13_Witness == PastPersist /\ pc[Me] = "done" /\ op[Me] = "update" /\ writeOnlyIfEngaged
               /\ Did("upsert") /\ StoredBefore /\ Row0 # store[U]

\* C14: create never adds an entry to the table for a learner that had none
\* (read_only is true when nothing was stored and assume-zero is off), so
\* repeating create for such a learner runs the calculator on every call.
Keys(table) == {u \in Learners : table[u].exists}
C14_CreateAddsNoKey ==
    /\ (op[Me] = "create" /\ ~inIter[Me]) => Keys(store) = Keys(store0[Me])
    /\ (Again("create") /\ ~StoredBefore /\ ~assumeZero)
       => /\ Times(events[Me], "calc") = 1
          /\ Times(prev[Me].events, "calc") = 1
          /\ ~store[U].exists

C14_Witness == Again("create") /\ ~StoredBefore /\ ~assumeZero /\ persistGrades
               /\ ~writeOnlyIfEngaged /\ BothReturned /\ result[Me].value.passed = TRUE

\* C16: when the calculator fails in a direct create or update, the error
\* reaches the caller, the table is unchanged and no notification is sent.
CalculatorFailed == /\ op[Me] \in {"create", "update"} /\ ~inIter[Me]
                    /\ Did("calc") /\ grade[Me] = NoGrade
C16_CalculatorErrorPropagates ==
    CalculatorFailed =>
        /\ pc[Me] = "done"
        /\ result[Me] = Raised("CalculatorError")
        /\ store = store0[Me]
        /\ Effects(events[Me]) = <<>>
        /\ ~Did("upsert_failed")

C16_Witness == CalculatorFailed /\ op[Me] = "create" /\ StoredStale /\ persistGrades

\* C20: with persistence disabled for the course no operation reads or writes
\* the table; create and read behave as if nothing were stored, also when an
\* entry exists: a ZeroCourseGrade if assume-zero is on, otherwise create
\* recomputes without persisting and read returns None.
C20_Disabled ==
    (pc[Me] = "done" /\ ~inIter[Me] /\ ~persistGrades) =>
        /\ ~Did("store_read") /\ UpsertCalls = 0 /\ store = store0[Me]
        /\ (op[Me] = "create" /\ assumeZero)
              => (result[Me] = Returned(ZeroCourseGrade) /\ ~Did("calc"))
        /\ (op[Me] = "create" /\ ~assumeZero)
              => /\ Times(events[Me], "calc") = 1
                 /\ ReturnedValue => result[Me].value = Compute(data[U], ctxHash[Me])
        /\ op[Me] = "read"
              => /\ result[Me] = Returned(IF assumeZero THEN ZeroCourseGrade ELSE None)
                 /\ ~Did("calc")

C20_Witness == Finished("create") /\ ~persistGrades /\ StoredCurrent /\ ~assumeZero
               /\ ReturnedValue /\ ~SameAsRow(result[Me].value, Row0)

\* C19: a listener that fails during a recompute does not abort the call:
\* the call returns the grade it computed, the table keeps the upserted row,
\* and the notification still due is dispatched.
ListenerFailed == /\ op[Me] \in {"create", "update"} /\ ~inIter[Me]
                  /\ Did("listener_failed")
C19_ListenerFailureContained ==
    ListenerFailed =>
        /\ result[Me].kind # "raise"
        /\ Did("upsert") => store[U] = PersistentRow(ctxHash[Me], grade[Me])
        /\ pc[Me] = "done" =>
              /\ result[Me] = Returned(Compute(dataSeen[Me], ctxHash[Me]))
              /\ Times(events[Me], "changed") = 1
              /\ Times(events[Me], "passed") = (IF grade[Me].passed = TRUE THEN 1 ELSE 0)

C19_Witness == /\ Finished("update")
               /\ events[Me] = <<"calc", "upsert", "listener_failed", "changed", "passed">>
               /\ store[U] # Row0

\* ---- the states of one resolution ---------------------------------------
\* The state of the spec's machine that the call of Me is in.
Phase ==
    CASE pc[Me] = "idle" -> "IDLE"
      [] pc[Me] = "read" -> "START"
      [] pc[Me] \in {"compute", "persist"} -> "RECOMPUTE"
      [] pc[Me] \in {"send_changed", "send_passed"} ->
            IF Did("upsert") THEN "PERSISTED" ELSE "UNPERSISTED"
      [] pc[Me] = "notified" -> "NOTIFIED"
      [] pc[Me] = "done" ->
            IF result[Me].kind = "raise" THEN "RAISED"
            ELSE IF Did("calc") THEN "DONE"
            ELSE IF result[Me].value.class = "ZeroCourseGrade" THEN "ZERO_RETURN"
            ELSE "FAST_RETURN"
Successors(ph) ==
    CASE ph = "START" -> {"FAST_RETURN", "ZERO_RETURN", "RECOMPUTE"}
      [] ph = "RECOMPUTE" -> {"PERSISTED", "UNPERSISTED", "RAISED"}
      [] ph \in {"PERSISTED", "UNPERSISTED"} -> {"NOTIFIED"}
      [] ph = "NOTIFIED" -> {"DONE"}
      [] OTHER -> {}
Resolving == op[Me] \in {"create", "update"} /\ ~inIter[Me]
C17_Once ==
    Resolving =>
        /\ Times(events[Me], "store_read") <= 1
        /\ Times(events[Me], "calc") <= 1
        /\ UpsertCalls <= 1
        /\ (pc[Me] = "done" /\ ReturnedValue) =>
              /\ Phase = "FAST_RETURN" =>
                    (persistGrades /\ StoredCurrent /\ NoSideEffects)
              /\ Phase = "ZERO_RETURN" =>
                    (assumeZero /\ (~StoredBefore \/ ~persistGrades) /\ NoSideEffects)
              /\ Phase = "DONE" =>
                    (Times(events[Me], "calc") = 1 /\ Times(events[Me], "changed") = 1)
C17_Step ==
    (Resolving /\ pc[Me] \notin {"idle", "done"} /\ Phase' # Phase)
    => Phase' \in Successors(Phase)

\* C17: one create or update call goes START -> {FAST_RETURN | ZERO_RETURN |
\* RECOMPUTE}, RECOMPUTE -> {PERSISTED | UNPERSISTED} -> NOTIFIED -> DONE and
\* never back; a call that returns ends in FAST_RETURN, ZERO_RETURN or DONE;
\* one call reads the table, runs the calculator and upserts at most once.
C17_StateMachine == []C17_Once /\ [][C17_Step]_vars

C17_Witness == Finished("create") /\ Phase = "DONE" /\ Did("store_read")
               /\ Did("upsert") /\ Did("passed")

\* ---- failures inside iter -----------------------------------------------
StoreFailure == Raised("StoreError")

\* C15 (as stated): a failed upsert is never turned into a returned result:
\* the create or update call raises, and no element yielded by iter stems
\* from a call whose upsert failed.
C15_AsStated ==
    /\ (pc[Me] = "done" /\ Did("upsert_failed")) => result[Me] = StoreFailure
    /\ \A i \in 1..Len(outcomes) : outcomes[i] # StoreFailure

\* C15 (amended): a failed upsert makes the create or update call raise,
\* with the table unchanged; when the call was made by iter, the error is
\* caught there and yielded as the learner's result, with no grade and the
\* exception in its error field.
C15_UpsertFailureSurfaced ==
    /\ (pc[Me] = "done" /\ Did("upsert_failed"))
       => (result[Me] = StoreFailure /\ store = store0[Me])
    /\ \A i \in 1..Len(outcomes) :
          outcomes[i] = StoreFailure =>
              results[i] = [student |-> genUsers[i], course_grade |-> None,
                            error |-> [class |-> "Exception", exc |-> "StoreError"]]

C15_Witness == /\ Len(results) = 2
               /\ outcomes[1] = StoreFailure
               /\ outcomes[2].kind = "return"

\* C18: within one run of iter the course snapshot is resolved once: also
\* when the policy changes while the sequence is consumed, every learner's
\* call is given the policy hash of that snapshot and every grade computed
\* in the run was computed under it.
Mask(g) == [class |-> g.class, percent |-> g.percent,
            letter_grade |-> g.letter_grade, passed |-> g.passed]
UnderSnapshot(u, g) ==
    \/ Mask(g) = Mask(Compute(data[u], genHash))
    \/ /\ store[u].exists
       /\ store[u].grading_policy_hash = genHash
       /\ SameAsRow(g, store[u])
C18_OneSnapshot ==
    /\ (genState = "running" /\ inIter[Me]) =>
          /\ ctxHash[Me] = genHash
          /\ grade[Me] # NoGrade => grade[Me] = Compute(data[user[Me]], genHash)
    /\ \A i \in 1..Len(outcomes) :
          (outcomes[i].kind = "return" /\ outcomes[i].value.class = "CourseGrade")
          => UnderSnapshot(genUsers[i], outcomes[i].value)

C18_Witness == /\ genState = "running" /\ genIdx = 2 /\ policyHash # genHash
               /\ outcomes[1].kind = "return"
               /\ Mask(outcomes[1].value) = Mask(Compute("partial", genHash))
               /\ grade[Me] = Compute("partial", genHash)
               /\ grade[Me] # Compute("partial", policyHash)

\* ---- concurrent updates -------------------------------------------------
UpsertedBy(p) == \E i \in 1..Len(events[p]) : events[p][i] = "upsert"
RowOf(p) == PersistentRow(ctxHash[p], grade[p])

\* C12: concurrent update calls for one learner are not serialized: the row
\* in the table is the one handed over by the upsert executed last, whatever
\* row was there and whichever call computed first.
C12_LastWriteWins ==
    \A u \in Learners :
        /\ store[u].exists <=> lastWriter[u] # "none"
        /\ \A p \in Procs :
              (lastWriter[u] = p /\ user[p] = u /\ UpsertedBy(p)) => store[u] = RowOf(p)

\* An interleaving in which the call that computed from the older work
\* upserts last: calculator of p1, the work changes, calculator and upsert
\* of p2, upsert of p1.
C12_Witness ==
    /\ pc["p1"] = "done" /\ pc["p2"] = "done"
    /\ op["p1"] = "update" /\ op["p2"] = "update"
    /\ user["p1"] = user["p2"]
    /\ UpsertedBy("p1") /\ UpsertedBy("p2")
    /\ lastWriter[user["p1"]] = "p1"
    /\ stale["p1"] /\ ~stale["p2"]
    /\ dataSeen["p1"] # data[user["p1"]] /\ dataSeen["p2"] = data[user["p1"]]
    /\ store[user["p1"]] = RowOf("p1")
    /\ RowOf("p1") # RowOf("p2")

====
